---- MODULE Spec2Model ----
(***************************************************************************)
(* groovebuoy: the room coordination engine (src/models/room.js) driven by *)
(* the RPC handlers of Peer (src/unnamed/part_000).                        *)
(*                                                                         *)
(* One step of the model is one run-to-completion turn of the Node event   *)
(* loop: an RPC handler, a socket disconnect, a timer callback, or the     *)
(* continuation of an async function after the client's requestTrack       *)
(* reply.  Room operations are operators on a world record w that holds    *)
(* every mutable field; a handler threads the record through the calls it  *)
(* makes, in the order of the source, and commits the result.              *)
(*                                                                         *)
(* Peers that are authenticated carry distinct ids (uuid), so peer         *)
(* identity and peer id coincide; id records only whether Peer.id is set.  *)
(* admin/adminId and profiles are not modelled: no operation below reads   *)
(* them.  reply is what _handleMessage passes to respond for the RPC of    *)
(* the last step.                                                          *)
(***************************************************************************)
EXTENDS Integers, Sequences, FiniteSets, TLC

\* ---------------------------------------------------------------- bounds
MaxRoster == 2      \* longest peers list explored (joinRoom can repeat)
MaxPending == 2     \* most unanswered requestTrack calls per room
MaxTracks == 2      \* track ids alive at once
NumRooms == 2       \* rooms ever created
GeneralPeers == 2   \* peers connected in Spec
RoomsPeers == 1     \* peers connected in SpecRooms
RotationPeers == 3  \* peers connected in SpecRotation
VotePeers == 4      \* peers connected in SpecVote
AuthPeers == 2      \* peers connected in SpecAuth
RpcPeers == 1       \* peers connected in SpecRpc

\* ------------------------------------------------------ program constants
MAX_DJS == 5

Max(S) == CHOOSE x \in S : \A y \in S : y <= x
DjPeers == MAX_DJS + 1      \* peers connected in SpecDjs: one more than the mics
NumPeers == Max({GeneralPeers, RoomsPeers, RotationPeers, VotePeers, AuthPeers,
                 RpcPeers, DjPeers})
Peers == 1..NumPeers
Rooms == 1..NumRooms
Null == 0           \* null peer / null room reference
NoTrack == [id |-> 0, by |-> 0]                    \* onDeck = null
NoPlay == [track |-> NoTrack, votes |-> <<>>]      \* nowPlaying = null
Messages == {"", "hi"}                             \* chat texts: blank and not

VARIABLES
  rooms,          \* server.rooms: the rooms in the directory
  connected,      \* server.peers: peers whose socket is open
  id,             \* TRUE iff Peer.id is set (join or authenticate succeeded)
  authTimeout,    \* TRUE iff the timer of Peer.authTimeout is pending
  currentRoom,    \* Peer.currentRoom
  peers,          \* Room.peers
  djs,            \* Room.djs
  activeDj,       \* Room.activeDj
  nowPlaying,     \* Room.nowPlaying: [track, votes]
  onDeck,         \* Room.onDeck
  tracks,         \* server.tracks: ids in the Track Registry
  skipWarning,    \* Room.skipWarning
  skipTimers,     \* pending skip timer callbacks of the room
  skipTimeout,    \* TRUE iff the handle in Room.skipTimeout is pending
  removalTimers,  \* pending removal timer callbacks of the room
  removalTimeout, \* TRUE iff the handle in Room._removalTimeout is pending
  spinWait,       \* spinDj invocations awaiting requestTrack from a peer
  fetchWait,      \* fetchOnDeck invocations awaiting requestTrack
  out,            \* the playTrack, stopTrack and setOnDeck broadcasts of the
                  \* last step, in order, each with its room
  reply           \* the answer to the RPC of the last step: "success",
                  \* "error", "undefined" (respond(undefined)), "uncaught"
                  \* (the handler threw, respond is never called) or
                  \* "none" (the step was no RPC)

vars == <<rooms, connected, id, authTimeout, currentRoom, peers, djs, activeDj,
          nowPlaying, onDeck, tracks, skipWarning, skipTimers, skipTimeout,
          removalTimers, removalTimeout, spinWait, fetchWait, out, reply>>

\* ---------------------------------------------------------------- helpers
Range(s) == {s[i] : i \in 1..Len(s)}

\* Array.prototype.indexOf, 1-based; 0 when absent
IndexOf(s, x) ==
  IF x \in Range(s) THEN CHOOSE i \in 1..Len(s) : s[i] = x /\ \A j \in 1..(i-1) : s[j] # x
  ELSE 0

\* Array.prototype.splice(index, 1)
Splice(s, i) == [k \in 1..(Len(s)-1) |-> IF k < i THEN s[k] ELSE s[k+1]]

\* f[1] + ... + f[n]
RECURSIVE Sum(_, _)
Sum(f, n) == IF n = 0 THEN 0 ELSE f[n] + Sum(f, n - 1)

\* the world record the room operations transform
Cur == [rooms |-> rooms, connected |-> connected, id |-> id,
        authTimeout |-> authTimeout, currentRoom |-> currentRoom,
        peers |-> peers, djs |-> djs, activeDj |-> activeDj,
        nowPlaying |-> nowPlaying, onDeck |-> onDeck, tracks |-> tracks,
        skipWarning |-> skipWarning, skipTimers |-> skipTimers,
        skipTimeout |-> skipTimeout, removalTimers |-> removalTimers,
        removalTimeout |-> removalTimeout, spinWait |-> spinWait,
        fetchWait |-> fetchWait, out |-> <<>>, reply |-> "none"]

\* ids held by some room or by the registry
UsedIds(w) == w.tracks \cup {w.onDeck[r].id : r \in Rooms}
                       \cup {w.nowPlaying[r].track.id : r \in Rooms}

\* uuid(): an id different from every id alive
FreshId(w) == CHOOSE i \in 1..(Cardinality(UsedIds(w) \ {0}) + 1) : i \notin UsedIds(w)

\* uuids are opaque and only ever compared for equality, so a state is kept
\* up to renaming of ids: the ids held by rooms are numbered in the order
\* room 1 nowPlaying, room 1 onDeck, room 2 nowPlaying, ... and the ids only
\* the registry still knows come after them
Holders == [h \in 1..(2 * NumRooms) |-> [room |-> (h + 1) \div 2, deck |-> h % 2 = 0]]
HeldId(w, h) ==
  IF Holders[h].deck THEN w.onDeck[Holders[h].room].id
  ELSE w.nowPlaying[Holders[h].room].track.id
Rank(w, h) ==
  IF HeldId(w, h) = 0 THEN 0
  ELSE Cardinality({g \in 1..h : HeldId(w, g) # 0})
Renamed(w, k, lost) ==
  [w EXCEPT
    !.nowPlaying = [r \in Rooms |-> [@[r] EXCEPT !.track.id = Rank(w, 2 * r - 1)]],
    !.onDeck = [r \in Rooms |-> [@[r] EXCEPT !.id = Rank(w, 2 * r)]],
    !.tracks = {Rank(w, h) : h \in {g \in 1..(2 * NumRooms) : HeldId(w, g) \in w.tracks \ {0}}}
               \cup ((k + 1)..(k + lost))]
HeldIds(w) == {HeldId(w, h) : h \in 1..(2 * NumRooms)} \ {0}
Canon(w) == Renamed(w, Cardinality(HeldIds(w)), Cardinality(w.tracks \ HeldIds(w)))

Bounded(w) ==
  /\ \A r \in Rooms : Sum(w.spinWait[r], NumPeers) + Sum(w.fetchWait[r], NumPeers) <= MaxPending
  /\ Cardinality(UsedIds(w) \ {0}) <= MaxTracks

Assign(w) ==
  /\ rooms' = w.rooms
  /\ connected' = w.connected
  /\ id' = w.id
  /\ authTimeout' = w.authTimeout
  /\ currentRoom' = w.currentRoom
  /\ peers' = w.peers
  /\ djs' = w.djs
  /\ activeDj' = w.activeDj
  /\ nowPlaying' = w.nowPlaying
  /\ onDeck' = w.onDeck
  /\ tracks' = w.tracks
  /\ skipWarning' = w.skipWarning
  /\ skipTimers' = w.skipTimers
  /\ skipTimeout' = w.skipTimeout
  /\ removalTimers' = w.removalTimers
  /\ removalTimeout' = w.removalTimeout
  /\ spinWait' = w.spinWait
  /\ fetchWait' = w.fetchWait
  /\ out' = w.out
  /\ reply' = w.reply

Commit(w) == Bounded(w) /\ Assign(Canon(w))

\* _handleMessage: respond(v) with the value the handler returned
Respond(w, v) == [w EXCEPT !.reply = v]

\* ------------------------------------------------------------------- Room

\* Peer.send({name: 'requestTrack'}) awaited by spinDj: this.id.split throws
\* for a peer without id, and the reply callback is kept only while the
\* socket is open
AwaitSpin(w, r, p) ==
  IF p \in w.connected /\ w.id[p] THEN [w EXCEPT !.spinWait[r][p] = @ + 1] ELSE w

AwaitFetch(w, r, p) ==
  IF p \in w.connected /\ w.id[p] THEN [w EXCEPT !.fetchWait[r][p] = @ + 1] ELSE w

\* Room.broadcast of a message the model records
Broadcast(w, r, name) == [w EXCEPT !.out = Append(@, <<r, name>>)]

SetOnDeck(w, r, track) == [Broadcast(w, r, "setOnDeck") EXCEPT !.onDeck[r] = track]

SetActiveDj(w, r, peer) == [w EXCEPT !.activeDj[r] = peer]

NextDj(w, r) ==
  IF Len(w.djs[r]) = 0 THEN Null
  ELSE IF w.activeDj[r] = Null THEN w.djs[r][1]
  ELSE LET currentIndex == IndexOf(w.djs[r], w.activeDj[r]) - 1    \* 0-based, -1 when absent
           nextIndex == (currentIndex + 1) % Len(w.djs[r])
       IN  w.djs[r][nextIndex + 1]

\* fetchOnDeck: the request to nextDj and the await
FetchOnDeckAsk(w, r, nextDj) ==
  IF nextDj = Null THEN w       \* null.send throws: the promise rejects
  ELSE AwaitFetch(w, r, nextDj)

\* fetchOnDeck up to its await
FetchOnDeck(w, r) ==
  IF w.onDeck[r] # NoTrack
  THEN FetchOnDeckAsk([w EXCEPT !.tracks = @ \ {w.onDeck[r].id}], r, NextDj(w, r))
  ELSE FetchOnDeckAsk(w, r, NextDj(w, r))

\* fetchOnDeck from "track.id = uuid()" on
PutOnDeck(w, r, track) == SetOnDeck([w EXCEPT !.tracks = @ \cup {track.id}], r, track)

\* fetchOnDeck after the reply of nextDj
FetchOnDeckResume(w, r, nextDj) ==
  IF NextDj(w, r) # nextDj THEN w
  ELSE PutOnDeck(w, r, [id |-> FreshId(w), by |-> nextDj])

\* spinDj from "delete track.data" on
Publish(w, r, track) ==
  FetchOnDeck(Broadcast([w EXCEPT !.nowPlaying[r] = [track |-> track, votes |-> <<>>]],
                        r, "playTrack"), r)

\* spinDj after setActiveDj
SpinDjPlay(w, r, dj) ==
  IF dj = Null THEN SetOnDeck(w, r, NoTrack)
  ELSE IF w.onDeck[r] # NoTrack
  THEN Publish([w EXCEPT !.onDeck[r] = NoTrack], r, w.onDeck[r])
  ELSE AwaitSpin(w, r, dj)

\* spinDj up to its await (or to its end when a track is on deck)
SpinDjTo(w, r, dj) == SpinDjPlay(SetActiveDj(w, r, dj), r, dj)

SpinDj(w, r) == SpinDjTo(w, r, NextDj(w, r))

\* spinDj from "track.id = uuid()" on
SpinDjPut(w, r, track) == Publish([w EXCEPT !.tracks = @ \cup {track.id}], r, track)

\* spinDj after the reply of dj
SpinDjResume(w, r, dj) == SpinDjPut(w, r, [id |-> FreshId(w), by |-> dj])

\* endTrack that resets activeDj where it broadcasts setActiveDj {djId: null}
EndTrackNullDj(w, r) ==
  IF w.nowPlaying[r] = NoPlay THEN w
  ELSE SpinDj(Broadcast([w EXCEPT !.tracks = @ \ {w.nowPlaying[r].track.id},
                                  !.nowPlaying[r] = NoPlay,
                                  !.activeDj[r] = Null], r, "stopTrack"), r)

EndTrack(w, r) ==
  IF w.nowPlaying[r] = NoPlay THEN w
  ELSE SpinDj(Broadcast([w EXCEPT !.tracks = @ \ {w.nowPlaying[r].track.id},
                                  !.nowPlaying[r] = NoPlay], r, "stopTrack"), r)

\* addDj without its MAX_DJS test
AddDjOkNoCap(w, r, peer) == peer \notin Range(w.djs[r])

AddDjOk(w, r, peer) ==
  /\ Len(w.djs[r]) < MAX_DJS
  /\ peer \notin Range(w.djs[r])

\* addDj: "Update the on deck track if they're next"
AddDjDeck(w, r, peer) == IF NextDj(w, r) = peer THEN FetchOnDeck(w, r) ELSE w

\* addDj: "They're the first DJ so let's spin up a track"
AddDjSpin(w, r, peer) ==
  AddDjDeck(IF Len(w.djs[r]) = 1 THEN SpinDj(w, r) ELSE w, r, peer)

AddDj(w, r, peer) ==
  IF ~AddDjOk(w, r, peer) THEN w
  ELSE AddDjSpin([w EXCEPT !.djs[r] = Append(@, peer)], r, peer)

\* removeDj after the splice
RemoveDjRest(w, r, peer, refreshOnDeck) ==
  IF w.activeDj[r] # Null /\ w.activeDj[r] = peer THEN EndTrack(w, r)
  ELSE IF Len(w.djs[r]) # 0 /\ refreshOnDeck THEN FetchOnDeck(w, r)
  ELSE IF Len(w.djs[r]) = 0 THEN SetOnDeck(w, r, NoTrack)
  ELSE w

RemoveDjAt(w, r, peer, index) ==
  IF index = 0 THEN w
  ELSE RemoveDjRest([w EXCEPT !.djs[r] = Splice(@, index)], r, peer, NextDj(w, r) = peer)

RemoveDj(w, r, peer) == RemoveDjAt(w, r, peer, IndexOf(w.djs[r], peer))

\* the value removeDj returns: false when peer is no DJ, the result of
\* endTrack when peer is the active DJ, true otherwise
RemoveDjResult(w, r, peer) ==
  IF peer \notin Range(w.djs[r]) THEN FALSE
  ELSE IF w.activeDj[r] # Null /\ w.activeDj[r] = peer THEN w.nowPlaying[r] # NoPlay
  ELSE TRUE

TriggerRemoval(w, r) ==
  [w EXCEPT !.removalTimers[r] = @ + 1, !.removalTimeout[r] = TRUE]

\* addPeer without its clearTimeout
AddPeerKeepTimer(w, r, peer) == [w EXCEPT !.peers[r] = Append(@, peer)]

AddPeer(w, r, peer) ==
  [w EXCEPT !.peers[r] = Append(@, peer),
            !.removalTimers[r] = IF w.removalTimeout[r] THEN @ - 1 ELSE @,
            !.removalTimeout[r] = FALSE]

\* removePeer: "If we don't have any peers left let's clean ourselves up"
RemovePeerRest(w, r) == IF Len(w.peers[r]) = 0 THEN TriggerRemoval(w, r) ELSE w

RemovePeerAt(w, r, peer, index) ==
  IF index = 0 THEN w
  ELSE RemovePeerRest(RemoveDj([w EXCEPT !.peers[r] = Splice(@, index)], r, peer), r)

RemovePeer(w, r, peer) == RemovePeerAt(w, r, peer, IndexOf(w.peers[r], peer))

\* the reduce of setVote: a true entry adds to ups, a false entry to downs
Ups(votes) == Cardinality({p \in DOMAIN votes : votes[p]})
Downs(votes) == Cardinality({p \in DOMAIN votes : ~votes[p]})

\* shouldSkip with downPerc > .5 for downPerc >= .5
ShouldSkipStrict(ups, downs, npeers) ==
  /\ 10 * (ups + downs) >= 3 * npeers
  /\ 2 * downs > ups + downs

\* quorumPerc >= .3 && downPerc >= .5, on the integers: the quotient of two
\* small integers rounds to .3 (.5) exactly when it equals it, and x/0 is
\* Infinity for x > 0
ShouldSkip(ups, downs, npeers) ==
  /\ 10 * (ups + downs) >= 3 * npeers
  /\ 2 * downs >= ups + downs

\* setVote that cancels the warning without clearTimeout
SetSkipWarningNoClear(w, r, shouldSkip) ==
  IF ~w.skipWarning[r] /\ shouldSkip
  THEN [w EXCEPT !.skipWarning[r] = TRUE,
                 !.skipTimers[r] = @ + 1,
                 !.skipTimeout[r] = TRUE]
  ELSE IF w.skipWarning[r] /\ ~shouldSkip
  THEN [w EXCEPT !.skipWarning[r] = FALSE]
  ELSE w

\* setVote from "if (!this.skipWarning && shouldSkip)" on
SetSkipWarning(w, r, shouldSkip) ==
  IF ~w.skipWarning[r] /\ shouldSkip
  THEN [w EXCEPT !.skipWarning[r] = TRUE,
                 !.skipTimers[r] = @ + 1,
                 !.skipTimeout[r] = TRUE]
  ELSE IF w.skipWarning[r] /\ ~shouldSkip
  THEN [w EXCEPT !.skipTimers[r] = IF w.skipTimeout[r] THEN @ - 1 ELSE @,
                 !.skipTimeout[r] = FALSE,
                 !.skipWarning[r] = FALSE]
  ELSE w

\* setVote after "this.nowPlaying.votes[peerId] = !!direction"
SetVoteCount(w, r, votes) ==
  SetSkipWarning(w, r, ShouldSkip(Ups(votes), Downs(votes), Len(w.peers[r])))

\* setVote with the votes map after the write
SetVoteTo(w, r, votes) == SetVoteCount([w EXCEPT !.nowPlaying[r].votes = votes], r, votes)

SetVote(w, r, peerId, direction) ==
  SetVoteTo(w, r, [q \in DOMAIN w.nowPlaying[r].votes \cup {peerId} |->
                     IF q = peerId THEN direction ELSE w.nowPlaying[r].votes[q]])

\* the callback given to setTimeout in setVote
SkipTimeoutFired(w, r) == EndTrack([w EXCEPT !.skipWarning[r] = FALSE], r)

\* timers of one delay fire in the order they were set; the handle the room
\* keeps is the one set last
TimerPopped(count, live) == [count |-> count - 1, live |-> live /\ count > 1]

\* ----------------------------------------------------------------- Server

\* PeerServer.removeRoom: the room leaves the directory and its tracks the registry
RemoveRoom(w, r) ==
  [w EXCEPT !.rooms = @ \ {r},
            !.tracks = @ \ {w.onDeck[r].id, w.nowPlaying[r].track.id}]

\* the callback given to setTimeout in triggerRemoval
RemovalTimeoutFired(w, r) ==
  IF Len(w.peers[r]) > 0 THEN w ELSE RemoveRoom(w, r)

\* ------------------------------------------------------------- RPC handlers

JoinRoom(p, r) ==
  /\ p \in connected
  /\ r \in rooms
  /\ Len(peers[r]) < MaxRoster
  /\ Commit(Respond(AddPeer([Cur EXCEPT !.currentRoom[p] = r], r, p), "success"))

LeaveRoom(p) ==
  /\ p \in connected
  /\ currentRoom[p] # Null
  /\ Commit(Respond(RemovePeer(Cur, currentRoom[p], p), "success"))

BecomeDj(p) ==
  /\ p \in connected
  /\ currentRoom[p] # Null
  /\ AddDjOk(Cur, currentRoom[p], p)
  /\ Commit(Respond(AddDj(Cur, currentRoom[p], p), "success"))

StepDown(p) ==
  /\ p \in connected
  /\ currentRoom[p] # Null
  /\ p \in Range(djs[currentRoom[p]])
  /\ Commit(Respond(RemoveDj(Cur, currentRoom[p], p),
                    IF RemoveDjResult(Cur, currentRoom[p], p) THEN "success" ELSE "error"))

TrackEnded(p) ==
  /\ p \in connected
  /\ currentRoom[p] # Null
  /\ activeDj[currentRoom[p]] = p
  /\ nowPlaying[currentRoom[p]] # NoPlay
  /\ Commit(Respond(EndTrack(Cur, currentRoom[p]), "success"))

SkipTurn(p) ==
  /\ p \in connected
  /\ currentRoom[p] # Null
  /\ activeDj[currentRoom[p]] # Null
  /\ activeDj[currentRoom[p]] = p
  /\ nowPlaying[currentRoom[p]] # NoPlay
  /\ Commit(Respond(EndTrack(Cur, currentRoom[p]), "success"))

UpdatedQueue(p) ==
  /\ p \in connected
  /\ currentRoom[p] # Null
  /\ NextDj(Cur, currentRoom[p]) = p
  /\ Commit(Respond(FetchOnDeck(Cur, currentRoom[p]), "success"))

Vote(p, direction) ==
  /\ p \in connected
  /\ currentRoom[p] # Null
  /\ nowPlaying[currentRoom[p]] # NoPlay
  /\ Commit(Respond(SetVote(Cur, currentRoom[p], p, direction), "success"))

\* Peer._handleDisconnect: the socket is closed, its pending reply callbacks
\* are never called
SocketClosed(w, p) ==
  [w EXCEPT !.connected = @ \ {p},
            !.spinWait = [r \in Rooms |-> [@[r] EXCEPT ![p] = 0]],
            !.fetchWait = [r \in Rooms |-> [@[r] EXCEPT ![p] = 0]]]

Disconnected(w, p) ==
  IF w.currentRoom[p] # Null THEN RemovePeer(SocketClosed(w, p), w.currentRoom[p], p)
  ELSE SocketClosed(w, p)

HandleDisconnect(p) ==
  /\ p \in connected
  /\ Commit(Disconnected(Cur, p))

\* the tokens a client can present: signed by this server for this server,
\* signed by this server for another one, not verifiable
Tokens == {"valid", "foreign", "garbled"}

\* join and authenticate from "this.id = " on
Authenticated(w, p) ==
  Respond([w EXCEPT !.id[p] = TRUE, !.authTimeout[p] = FALSE], "success")

\* join without its clearTimeout
JoinOkKeepTimer(w, p, jwt) ==
  IF jwt = "valid" THEN Respond([w EXCEPT !.id[p] = TRUE], "success")
  ELSE Respond(w, "error")

\* join: JWT.verify throws on a garbled token and the catch returns the error
JoinOk(w, p, jwt) ==
  IF jwt = "valid" THEN Authenticated(w, p) ELSE Respond(w, "error")

Join(p, jwt) ==
  /\ p \in connected
  /\ Commit(JoinOk(Cur, p, jwt))

\* authenticate: JWT.verify throws on a garbled token, the promise of the
\* async function rejects and _handleMessage answers with the error
Authenticate(p, jwt) ==
  /\ p \in connected
  /\ Commit(IF jwt = "valid" THEN Authenticated(Cur, p) ELSE Respond(Cur, "error"))

\* the handlers on the paths that leave the rooms alone

JoinRoomIdle(p, r) ==
  /\ p \in connected
  /\ r \notin rooms
  /\ Commit(Respond(Cur, "error"))

LeaveRoomIdle(p) ==
  /\ p \in connected
  /\ currentRoom[p] = Null
  /\ Commit(Respond(Cur, "error"))

\* addDj answers its refusal with an object, which is truthy
BecomeDjIdle(p) ==
  /\ p \in connected
  /\ IF currentRoom[p] = Null THEN Commit(Respond(Cur, "error"))
     ELSE /\ ~AddDjOk(Cur, currentRoom[p], p)
          /\ Commit(Respond(AddDj(Cur, currentRoom[p], p), "success"))

StepDownIdle(p) ==
  /\ p \in connected
  /\ IF currentRoom[p] = Null THEN Commit(Respond(Cur, "error"))
     ELSE /\ p \notin Range(djs[currentRoom[p]])
          /\ Commit(Respond(RemoveDj(Cur, currentRoom[p], p), "error"))

TrackEndedIdle(p) ==
  /\ p \in connected
  /\ IF currentRoom[p] = Null \/ activeDj[currentRoom[p]] # p
     THEN Commit(Respond(Cur, "error"))
     ELSE /\ nowPlaying[currentRoom[p]] = NoPlay
          /\ Commit(Respond(EndTrack(Cur, currentRoom[p]), "success"))

SkipTurnIdle(p) ==
  /\ p \in connected
  /\ IF currentRoom[p] = Null \/ activeDj[currentRoom[p]] = Null
        \/ activeDj[currentRoom[p]] # p
     THEN Commit(Respond(Cur, "error"))
     ELSE /\ nowPlaying[currentRoom[p]] = NoPlay
          /\ Commit(Respond(EndTrack(Cur, currentRoom[p]), "success"))

\* updatedQueue: a bare return
UpdatedQueueIdle(p) ==
  /\ p \in connected
  /\ IF currentRoom[p] = Null THEN TRUE ELSE NextDj(Cur, currentRoom[p]) # p
  /\ Commit(Respond(Cur, "undefined"))

VoteIdle(p) ==
  /\ p \in connected
  /\ IF currentRoom[p] = Null THEN TRUE ELSE nowPlaying[currentRoom[p]] = NoPlay
  /\ Commit(Respond(Cur, "error"))

\* sendChat: this.currentRoom.sendChat throws for currentRoom null while
\* _handleMessage evaluates method(params), before any promise exists
SendChat(p, message) ==
  /\ p \in connected
  /\ Commit(Respond(Cur, IF Len(message) = 0 THEN "error"
                         ELSE IF currentRoom[p] = Null THEN "uncaught"
                         ELSE "success"))

SetProfile(p) ==
  /\ p \in connected
  /\ Commit(Respond(Cur, "success"))

\* _handleMessage for a name that rpcMethods does not hold
InvalidCall(p) ==
  /\ p \in connected
  /\ Commit(Respond(Cur, "error"))

\* ------------------------------------------------- continuations and timers

SpinReply(r, p) ==
  /\ spinWait[r][p] > 0
  /\ Commit(SpinDjResume([Cur EXCEPT !.spinWait[r][p] = @ - 1], r, p))

FetchReply(r, p) ==
  /\ fetchWait[r][p] > 0
  /\ Commit(FetchOnDeckResume([Cur EXCEPT !.fetchWait[r][p] = @ - 1], r, p))

SkipTimer(r) ==
  /\ skipTimers[r] > 0
  /\ LET t == TimerPopped(skipTimers[r], skipTimeout[r])
     IN  Commit(SkipTimeoutFired([Cur EXCEPT !.skipTimers[r] = t.count,
                                             !.skipTimeout[r] = t.live], r))

RemovalTimer(r) ==
  /\ removalTimers[r] > 0
  /\ LET t == TimerPopped(removalTimers[r], removalTimeout[r])
     IN  Commit(RemovalTimeoutFired([Cur EXCEPT !.removalTimers[r] = t.count,
                                                !.removalTimeout[r] = t.live], r))

\* Peer._closeUnauthenticated: socket.disconnect() emits 'disconnect'
AuthTimer(p) ==
  /\ authTimeout[p]
  /\ Commit(IF p \in connected THEN Disconnected([Cur EXCEPT !.authTimeout[p] = FALSE], p)
            ELSE [Cur EXCEPT !.authTimeout[p] = FALSE])

\* ------------------------------------------------------------ specification

\* the server after createRoom for the rooms of rms, the connection of the
\* peers of conn and the authentication of the peers of authed, the peers of
\* roster having joined room 1 in that order
InitServer(conn, authed, rms, roster) ==
  /\ rooms = rms
  /\ connected = conn
  /\ id = [p \in Peers |-> p \in authed]
  /\ authTimeout = [p \in Peers |-> p \in conn \ authed]
  /\ currentRoom = [p \in Peers |-> IF p \in Range(roster) THEN 1 ELSE Null]
  /\ peers = [r \in Rooms |-> IF r = 1 THEN roster ELSE <<>>]
  /\ djs = [r \in Rooms |-> <<>>]
  /\ activeDj = [r \in Rooms |-> Null]
  /\ nowPlaying = [r \in Rooms |-> NoPlay]
  /\ onDeck = [r \in Rooms |-> NoTrack]
  /\ tracks = {}
  /\ skipWarning = [r \in Rooms |-> FALSE]
  /\ skipTimers = [r \in Rooms |-> 0]
  /\ skipTimeout = [r \in Rooms |-> FALSE]
  /\ removalTimers = [r \in Rooms |-> 0]
  /\ removalTimeout = [r \in Rooms |-> FALSE]
  /\ spinWait = [r \in Rooms |-> [p \in Peers |-> 0]]
  /\ fetchWait = [r \in Rooms |-> [p \in Peers |-> 0]]
  /\ out = <<>>
  /\ reply = "none"

\* every connected peer has authenticated
InitWith(conn, rms, roster) == InitServer(conn, conn, rms, roster)

\* Spec: one room, GeneralPeers peers, every operation
Init == InitWith(1..GeneralPeers, {1}, <<>>)

Next ==
  \/ \E p \in Peers, r \in Rooms : JoinRoom(p, r)
  \/ \E p \in Peers : LeaveRoom(p)
  \/ \E p \in Peers : BecomeDj(p)
  \/ \E p \in Peers : StepDown(p)
  \/ \E p \in Peers : TrackEnded(p)
  \/ \E p \in Peers : SkipTurn(p)
  \/ \E p \in Peers : UpdatedQueue(p)
  \/ \E p \in Peers, direction \in BOOLEAN : Vote(p, direction)
  \/ \E p \in Peers : HandleDisconnect(p)
  \/ \E r \in Rooms, p \in Peers : SpinReply(r, p)
  \/ \E r \in Rooms, p \in Peers : FetchReply(r, p)
  \/ \E r \in Rooms : SkipTimer(r)
  \/ \E r \in Rooms : RemovalTimer(r)

Spec == Init /\ [][Next]_vars

\* SpecRooms: every room of the directory, RoomsPeers peers; the operations
\* on the rosters and the DJ lists
InitRooms == InitWith(1..RoomsPeers, Rooms, <<>>)

NextRooms ==
  \/ \E p \in Peers, r \in Rooms : JoinRoom(p, r)
  \/ \E p \in Peers : LeaveRoom(p)
  \/ \E p \in Peers : BecomeDj(p)
  \/ \E p \in Peers : StepDown(p)
  \/ \E p \in Peers : HandleDisconnect(p)
  \/ \E r \in Rooms, p \in Peers : SpinReply(r, p)
  \/ \E r \in Rooms, p \in Peers : FetchReply(r, p)
  \/ \E r \in Rooms : RemovalTimer(r)

SpecRooms == InitRooms /\ [][NextRooms]_vars

\* SpecRotation: RotationPeers peers already in room 1; the operations that
\* move the DJ rotation
InitRotation == InitWith(1..RotationPeers, {1}, [i \in 1..RotationPeers |-> i])

NextRotation ==
  \/ \E p \in Peers : BecomeDj(p)
  \/ \E p \in Peers : StepDown(p)
  \/ \E p \in Peers : TrackEnded(p)
  \/ \E p \in Peers : HandleDisconnect(p)
  \/ \E r \in Rooms, p \in Peers : SpinReply(r, p)
  \/ \E r \in Rooms, p \in Peers : FetchReply(r, p)

SpecRotation == InitRotation /\ [][NextRotation]_vars

\* SpecTurns: RotationPeers peers already in room 1; the DJs take their
\* turns and none gives up its mic
NextTurns ==
  \/ \E p \in Peers : BecomeDj(p)
  \/ \E p \in Peers : TrackEnded(p)
  \/ \E p \in Peers : SkipTurn(p)
  \/ \E p \in Peers : UpdatedQueue(p)
  \/ \E r \in Rooms, p \in Peers : SpinReply(r, p)
  \/ \E r \in Rooms, p \in Peers : FetchReply(r, p)

SpecTurns == InitRotation /\ [][NextTurns]_vars

\* SpecLive: SpecRotation where every requestTrack a connected peer holds
\* is answered in the end
\* the steps that answer a requestTrack of spinDj (of fetchOnDeck): one
\* pending call less while no socket closes; enabled whenever a call is
\* pending
SpinAnswered ==
  \E r \in Rooms, p \in Peers :
    /\ spinWait[r][p] > 0
    /\ spinWait' = [spinWait EXCEPT ![r][p] = @ - 1]
    /\ connected' = connected

FetchAnswered ==
  \E r \in Rooms, p \in Peers :
    /\ fetchWait[r][p] > 0
    /\ fetchWait' = [fetchWait EXCEPT ![r][p] = @ - 1]
    /\ connected' = connected

SpecLive ==
  /\ InitRotation
  /\ [][NextRotation]_vars
  /\ WF_spinWait(SpinAnswered)
  /\ WF_fetchWait(FetchAnswered)

\* SpecDjs: DjPeers peers already in room 1; the operations on the DJ list,
\* the peers interchangeable: the one with the least index asks for a mic,
\* the active DJ and the last DJ of the list give theirs up
InitDjs == InitWith(1..DjPeers, {1}, [i \in 1..DjPeers |-> i])

NextDjs ==
  \/ \E p \in Peers : (\A q \in 1..(p - 1) : q \in Range(djs[1])) /\ BecomeDj(p)
  \/ \E p \in Peers : (p = activeDj[1] \/ IndexOf(djs[1], p) = Len(djs[1])) /\ StepDown(p)
  \/ \E r \in Rooms, p \in Peers : SpinReply(r, p)
  \/ \E r \in Rooms, p \in Peers : FetchReply(r, p)

SpecDjs == InitDjs /\ [][NextDjs]_vars

\* SpecVote: VotePeers peers already in room 1; peer 1 plays and ends its
\* tracks in every way, all vote
InitVote == InitWith(1..VotePeers, {1}, [i \in 1..VotePeers |-> i])

NextVote ==
  \/ BecomeDj(1)
  \/ StepDown(1)
  \/ TrackEnded(1)
  \/ SkipTurn(1)
  \/ \E p \in Peers, direction \in BOOLEAN : Vote(p, direction)
  \/ \E r \in Rooms, p \in Peers : SpinReply(r, p)
  \/ \E r \in Rooms, p \in Peers : FetchReply(r, p)
  \/ \E r \in Rooms : SkipTimer(r)

SpecVote == InitVote /\ [][NextVote]_vars

\* SpecAuth: AuthPeers peers have just connected; the authentication, and
\* the roster and the removal of room 1
InitAuth == InitServer(1..AuthPeers, {}, {1}, <<>>)

NextAuth ==
  \/ \E p \in Peers, jwt \in Tokens : Join(p, jwt)
  \/ \E p \in Peers, jwt \in Tokens : Authenticate(p, jwt)
  \/ \E p \in Peers : AuthTimer(p)
  \/ \E p \in Peers : HandleDisconnect(p)
  \/ \E p \in Peers, r \in Rooms : JoinRoom(p, r)
  \/ \E p \in Peers : LeaveRoom(p)
  \/ \E r \in Rooms : RemovalTimer(r)

SpecAuth == InitAuth /\ [][NextAuth]_vars

\* SpecRpc: one room, RpcPeers peers, every handler on every path
InitRpc == InitWith(1..RpcPeers, {1}, <<>>)

NextRpc ==
  \/ Next
  \/ \E p \in Peers, r \in Rooms : JoinRoomIdle(p, r)
  \/ \E p \in Peers : LeaveRoomIdle(p)
  \/ \E p \in Peers : BecomeDjIdle(p)
  \/ \E p \in Peers : StepDownIdle(p)
  \/ \E p \in Peers : TrackEndedIdle(p)
  \/ \E p \in Peers : SkipTurnIdle(p)
  \/ \E p \in Peers : UpdatedQueueIdle(p)
  \/ \E p \in Peers : VoteIdle(p)
  \/ \E p \in Peers, message \in Messages : SendChat(p, message)
  \/ \E p \in Peers : SetProfile(p)
  \/ \E p \in Peers : InvalidCall(p)

SpecRpc == InitRpc /\ [][NextRpc]_vars

\* ------------------------------------------------------------------ claims

NoDuplicates(s) == Cardinality(Range(s)) = Len(s)
Sent(r, name) == \E i \in 1..Len(out) : out[i] = <<r, name>>

\* C1: in every reachable state the djs of every room holds no peer twice
\* and at most MAX_DJS peers.
C1_DjsBounded ==
  \A r \in Rooms : NoDuplicates(djs[r]) /\ Len(djs[r]) <= MAX_DJS

\* C1 witness: every mic is taken, a track plays and a further peer of the
\* room is left without one.
C1_Witness ==
  /\ Len(djs[1]) = MAX_DJS
  /\ nowPlaying[1] # NoPlay
  /\ \E p \in connected : currentRoom[p] = 1 /\ p \notin Range(djs[1])

\* C2 as stated: every DJ of a room is on the roster of that room.
C2_DjsOnRoster ==
  \A r \in Rooms : Range(djs[r]) \subseteq Range(peers[r])

\* C3 as stated: the active DJ of a room is null or one of its DJs.
C3_ActiveDjIsDj ==
  \A r \in Rooms : activeDj[r] = Null \/ activeDj[r] \in Range(djs[r])

\* C4 as stated: a room that plays a track has an active DJ.
C4_PlayingHasActiveDj ==
  \A r \in Rooms : nowPlaying[r] # NoPlay => activeDj[r] # Null

\* C5 as stated: a peer is on the roster of at most one room, and at most
\* once on it.
C5_OneRosterEntry ==
  /\ \A p \in Peers : Cardinality({r \in Rooms : p \in Range(peers[r])}) <= 1
  /\ \A r \in Rooms : NoDuplicates(peers[r])

\* C6 as stated: the Track Registry holds exactly the ids of the tracks the
\* rooms hold on deck or play.
C6_RegistryIsHeld == tracks = HeldIds(Cur)

\* C7 as stated: a step that ends a track (it broadcasts stopTrack) leaves
\* no skip timer of the room pending.
C7_NoTimerAfterTrackEnd ==
  \A r \in Rooms : Sent(r, "stopTrack") => skipTimers[r] = 0

\* C8: in every reachable state of a room skipWarning is true exactly when
\* a skip timer is pending, and at most one is pending.
C8_WarningIffTimer ==
  \A r \in Rooms : /\ skipWarning[r] <=> skipTimers[r] > 0
                   /\ skipTimers[r] <= 1

\* C8 witness: the warning of an earlier track is still up, with its timer,
\* while the next track plays without a vote.
C8_Witness ==
  /\ skipWarning[1] /\ skipTimers[1] = 1
  /\ nowPlaying[1] # NoPlay /\ nowPlaying[1].votes = <<>>

\* a step of Peer.vote: it is answered, ends no track, and the vote of the
\* caller is on the map
VoteStep(r) ==
  /\ nowPlaying[r] # NoPlay
  /\ reply' = "success"
  /\ out' = <<>>
  /\ \E p \in DOMAIN nowPlaying'[r].votes :
       /\ currentRoom[p] = r
       /\ Vote(p, nowPlaying'[r].votes[p])

TrueVotes(r) == Cardinality({p \in DOMAIN nowPlaying[r].votes : nowPlaying[r].votes[p]})
FalseVotes(r) == Cardinality({p \in DOMAIN nowPlaying[r].votes : ~nowPlaying[r].votes[p]})

Follower(s, p) == s[(IndexOf(s, p) % Len(s)) + 1]

\* C10 as stated: when the active DJ of a playing room is removed and other
\* DJs remain, the DJ that followed it in the old djs order becomes active.
C10_FollowerPlaysNext ==
  [][\A r \in Rooms : \A p \in Peers :
       ( /\ activeDj[r] = p
         /\ nowPlaying[r] # NoPlay
         /\ p \in Range(djs[r])
         /\ Len(djs[r]) > 1
         /\ p \notin Range(djs'[r]) )
       => activeDj'[r] = Follower(djs[r], p)]_vars

\* a step of Peer.becomeDj in which addDj finds the room full or the caller
\* already a DJ
BecomeDjRefused(p) ==
  /\ currentRoom[p] # Null
  /\ ~AddDjOk(Cur, currentRoom[p], p)
  /\ BecomeDjIdle(p)

\* C11 as stated: a becomeDj whose precondition fails (the room has MAX_DJS
\* DJs or the caller is one of them) is answered with an error object and
\* leaves djs, activeDj, nowPlaying and onDeck unchanged.
C11_RefusedBecomeDjIsError ==
  [][\A p \in Peers : BecomeDjRefused(p) =>
       /\ reply' = "error"
       /\ UNCHANGED <<djs, activeDj, nowPlaying, onDeck>>]_vars

\* C12 as stated: after a successful leaveRoom the currentRoom of the peer
\* is null.
C12_LeaveRoomClearsCurrentRoom ==
  [][\A p \in Peers : (LeaveRoom(p) /\ reply' = "success") => currentRoom'[p] = Null]_vars

\* C13 as stated: every RPC is answered, with a success payload or with an
\* error object; no handler throws past _handleMessage or answers nothing.
C13_EveryRpcAnswered == reply \in {"none", "success", "error"}

RosterEmptied(r) == Len(peers[r]) > 0 /\ Len(peers'[r]) = 0
RosterEntered(r) == Len(peers'[r]) > Len(peers[r])
RoomRemoved(r) == r \in rooms /\ r \notin rooms'
RemovalExpired(r) == removalTimers'[r] < removalTimers[r] /\ ~RosterEntered(r)

\* C14: a removal timer is pending only while the roster has been empty
\* since it was set, and never two; the step that empties the roster sets
\* one, a step that adds a peer cancels it, the expiry of one removes the
\* room, and a room is removed by nothing else: so a room is removed exactly
\* when its timer expires with no peer having entered, and never while a
\* peer is on its roster.
C14_RemovedIffNoReentry ==
  [][\A r \in Rooms :
       /\ removalTimers[r] <= 1
       /\ removalTimers[r] = 1 => Len(peers[r]) = 0 /\ removalTimeout[r]
       /\ RosterEmptied(r) => removalTimers'[r] = 1 /\ removalTimeout'[r]
       /\ RosterEntered(r) => removalTimers'[r] = 0
       /\ RemovalExpired(r) => RoomRemoved(r)
       /\ RoomRemoved(r) => RemovalExpired(r) /\ Len(peers'[r]) = 0]_vars

\* C14 witness: room 1 is gone after its timer expired, while a peer that
\* was in it is still connected.
C14_Witness ==
  /\ 1 \notin rooms
  /\ removalTimers[1] = 0
  /\ \E p \in connected : currentRoom[p] = 1

NextDjOf(r) == NextDj(Cur, r)

\* the reply of p to a requestTrack of fetchOnDeck arrives when p is no
\* longer the next DJ of r
StaleFetchReply(r, p) == FetchReply(r, p) /\ NextDjOf(r) # p

\* C16 as stated: a fetchOnDeck reply that arrives when nextDj() is no
\* longer the DJ asked changes neither onDeck nor the Track Registry and
\* broadcasts no setOnDeck; and when the DJ asked is no DJ any more while
\* other DJs remain, a fetchOnDeck against the new next DJ has been
\* started: its request is in flight or its track is on deck.
C16_StaleReplyDroppedAndRefetched ==
  [][\A r \in Rooms, p \in Peers : StaleFetchReply(r, p) =>
       /\ onDeck'[r] = onDeck[r]
       /\ tracks' = tracks
       /\ ~Sent(r, "setOnDeck")'
       /\ (p \notin Range(djs[r]) /\ Len(djs[r]) > 0) =>
            \/ fetchWait'[r][NextDjOf(r)'] > 0
            \/ onDeck'[r].by = NextDjOf(r)']_vars

\* C17: a step that ends a track (it broadcasts stopTrack) and leaves a
\* non-empty djs unchanged moves activeDj from djs[i] to djs[(i+1) mod
\* |djs|]; and the DJ that becomes active when activeDj is null is djs[0].
C17_RotationInDjsOrder ==
  [][\A r \in Rooms :
       /\ ( /\ Sent(r, "stopTrack")'
            /\ djs'[r] = djs[r]
            /\ activeDj[r] \in Range(djs[r]) )
          => activeDj'[r] = Follower(djs[r], activeDj[r])
       /\ (activeDj[r] = Null /\ activeDj'[r] # Null) => activeDj'[r] = djs'[r][1]]_vars

\* C17 witness: every peer of the room is a DJ and the track of the last
\* one has just ended: the turn is back at djs[0], whose track plays.
C17_Witness ==
  /\ Len(djs[1]) = RotationPeers
  /\ Sent(1, "stopTrack") /\ Sent(1, "playTrack")
  /\ activeDj[1] = djs[1][1]
  /\ nowPlaying[1].track.by = djs[1][1]

\* the active DJ of room 1 has disconnected; other DJs remain
ActiveDjGone ==
  /\ activeDj[1] # Null
  /\ activeDj[1] \notin connected
  /\ Len(djs[1]) > 0

\* a track plays in room 1 as the turn of one of its DJs
PlayingForDj == nowPlaying[1] # NoPlay /\ activeDj[1] \in Range(djs[1])

\* C18 as stated: when every connected peer answers its requestTrack calls
\* and the active DJ is gone while other DJs remain, a track is published
\* in the end with one of the remaining DJs active (or no DJ remains).
C18_PlaybackResumes ==
  ActiveDjGone ~> (PlayingForDj \/ Len(djs[1]) = 0)

\* C19 as stated: the track a step publishes was supplied by the peer that
\* is activeDj when it is published.
C19_PlayedTrackIsOfActiveDj ==
  \A r \in Rooms : Sent(r, "playTrack") => nowPlaying[r].track.by = activeDj[r]

\* C20 as stated: a step publishes a track only when nowPlaying is null or
\* the step has ended the playing track (stopTrack) before.
C20_PublishOnlyWhenStopped ==
  [][\A r \in Rooms : Sent(r, "playTrack")' =>
       (nowPlaying[r] = NoPlay \/ Sent(r, "stopTrack")')]_vars

====
